---- MODULE Spec2Model ----
(***************************************************************************)
(* Model of the configuration resolver of knockout-client (src/config.ts)  *)
(* and of the module that imports the resolved record (src/main.ts).       *)
(*                                                                         *)
(* JavaScript strings are sequences of tokens (a token is a one-character  *)
(* string wherever the code looks at single characters: option names for   *)
(* toUpperCase, port strings for parseInt).  Every JavaScript value is a   *)
(* record [t, c, n, s]: t the kind, c the class of an Error, n the value   *)
(* of a number, s the text of a string / the message of an Error / the     *)
(* path behind a pending file read / the href of a URL.                    *)
(***************************************************************************)
EXTENDS Integers, Sequences, FiniteSets, TLC

VARIABLES
    args,       \* config.ts:4   parseArgs(Deno.args): option name -> raw string
    env,        \* Deno.env: variable name -> raw string
    pc,         \* position in the evaluation of config.ts / main.ts
    config,     \* config.ts:140 the record under construction
    resolved,   \* names of the options whose resolution has completed
    awaited,    \* the promise an await is suspended on, then the value it settled to
    error,      \* the value that aborted the module evaluation, if any
    seen,       \* what the importing module read from the record
    decl,       \* the declaration handed to the latest getOption call
    last        \* rawValue, outcome and invocation log of the latest getOption call

vars == <<args, env, pc, config, resolved, awaited, error, seen, decl, last>>

----------------------------------------------------------------------------
(* Values *)

Undefined == [t |-> "undefined", c |-> "", n |-> 0, s |-> <<>>]
Str(s) == [t |-> "string", c |-> "", n |-> 0, s |-> s]
Num(k) == [t |-> "number", c |-> "", n |-> k, s |-> <<>>]
NaN == [t |-> "nan", c |-> "", n |-> 0, s |-> <<>>]
PromiseOf(path) == [t |-> "promise", c |-> "", n |-> 0, s |-> path]
UrlOf(href) == [t |-> "url", c |-> "", n |-> 0, s |-> href]
Err(cls, msg) == [t |-> "error", c |-> cls, n |-> 0, s |-> msg]

\* `${value}` of a number
NumText(v) == IF v.t = "nan" THEN "NaN" ELSE ToString(v.n)

\* sub occurs in text as a contiguous run of tokens
Contains(text, sub) ==
    \E i \in 1..(Len(text) - Len(sub) + 1) : SubSeq(text, i, i + Len(sub) - 1) = sub

----------------------------------------------------------------------------
(* Option names and the environment keys they are read under *)

knockout_api_key ==
    <<"k","n","o","c","k","o","u","t","_","a","p","i","_","k","e","y">>
base_url == <<"b","a","s","e","_","u","r","l">>
https_key_filepath ==
    <<"h","t","t","p","s","_","k","e","y","_","f","i","l","e","p","a","t","h">>
https_cert_filepath ==
    <<"h","t","t","p","s","_","c","e","r","t","_","f","i","l","e","p","a","t","h">>
port == <<"p","o","r","t">>

OptionNames ==
    {knockout_api_key, base_url, https_key_filepath, https_cert_filepath, port}

UpperChar(ch) ==
    CASE ch = "a" -> "A" [] ch = "b" -> "B" [] ch = "c" -> "C" [] ch = "d" -> "D"
      [] ch = "e" -> "E" [] ch = "f" -> "F" [] ch = "g" -> "G" [] ch = "h" -> "H"
      [] ch = "i" -> "I" [] ch = "j" -> "J" [] ch = "k" -> "K" [] ch = "l" -> "L"
      [] ch = "m" -> "M" [] ch = "n" -> "N" [] ch = "o" -> "O" [] ch = "p" -> "P"
      [] ch = "q" -> "Q" [] ch = "r" -> "R" [] ch = "s" -> "S" [] ch = "t" -> "T"
      [] ch = "u" -> "U" [] ch = "v" -> "V" [] ch = "w" -> "W" [] ch = "x" -> "X"
      [] ch = "y" -> "Y" [] ch = "z" -> "Z" [] OTHER -> ch

\* config.ts:40
getEnvCase(name) == [i \in 1..Len(name) |-> UpperChar(name[i])]

\* a mapping read at a key: undefined when the key has no entry
Lookup(m, k) == IF k \in DOMAIN m THEN Str(m[k]) ELSE Undefined

----------------------------------------------------------------------------
(* The nullish tests of getOption *)

IsFalsy(v) ==
    \/ v.t = "undefined"
    \/ v.t = "nan"
    \/ v.t = "number" /\ v.n = 0
    \/ v.t = "string" /\ v.s = <<>>

\* config.ts:66,67   x == undefined
IsNullish(v) == v.t = "undefined"

CoalesceOr(a, b) == IF IsFalsy(a) THEN b ELSE a

CoalesceEnvFirst(a, b) == IF b.t = "undefined" THEN a ELSE b

\* config.ts:64   a ?? b
Coalesce(a, b) == IF a.t = "undefined" THEN b ELSE a

----------------------------------------------------------------------------
(* Parsers *)

IsWhiteSpace(ch) == ch = " "

RECURSIVE TrimLeft(_)
TrimLeft(s) ==
    IF s # <<>> /\ IsWhiteSpace(Head(s)) THEN TrimLeft(Tail(s)) ELSE s

\* the value of a digit; 36, a digit of no radix, for any other token
DigitVal(ch) ==
    CASE ch = "0" -> 0 [] ch = "1" -> 1 [] ch = "2" -> 2 [] ch = "3" -> 3
      [] ch = "4" -> 4 [] ch = "5" -> 5 [] ch = "6" -> 6 [] ch = "7" -> 7
      [] ch = "8" -> 8 [] ch = "9" -> 9
      [] ch \in {"a", "A"} -> 10 [] ch \in {"b", "B"} -> 11
      [] ch \in {"c", "C"} -> 12 [] ch \in {"d", "D"} -> 13
      [] ch \in {"e", "E"} -> 14 [] ch \in {"f", "F"} -> 15
      [] OTHER -> 36

\* the longest run of digits of the radix from position i on: its value and length
RECURSIVE ParseDigits(_, _, _, _, _)
ParseDigits(s, i, radix, acc, cnt) ==
    IF i > Len(s) \/ DigitVal(s[i]) >= radix
    THEN [n |-> acc, cnt |-> cnt]
    ELSE ParseDigits(s, i + 1, radix, acc * radix + DigitVal(s[i]), cnt + 1)

\* config.ts:147   parseInt, called by getOption with the raw string alone (no
\* radix): leading white space, a sign, a 0x prefix, then the longest run of
\* digits; NaN when there is none.  It never throws.
parseInt(s) ==
    LET t == TrimLeft(s)
        neg == t # <<>> /\ t[1] = "-"
        u == IF t # <<>> /\ t[1] \in {"+", "-"} THEN Tail(t) ELSE t
        hex == Len(u) >= 2 /\ u[1] = "0" /\ u[2] \in {"x", "X"}
        d == IF hex THEN SubSeq(u, 3, Len(u)) ELSE u
        r == ParseDigits(d, 1, IF hex THEN 16 ELSE 10, 0, 0)
    IN  [threw |-> FALSE,
         v |-> IF r.cnt = 0 THEN NaN ELSE Num(IF neg THEN 0 - r.n ELSE r.n)]

Schemes == {"https://", "http://"}

\* config.ts:142   new URL(value): a scheme and a host, then an optional path;
\* the href of a URL without a path gets the path "/"; anything else throws
NewURL(s) ==
    IF Len(s) >= 2 /\ s[1] \in Schemes
    THEN [threw |-> FALSE, v |-> UrlOf(IF Len(s) = 2 THEN s \o <<"/">> ELSE s)]
    ELSE [threw |-> TRUE, v |-> Err("TypeError", <<"Invalid URL">>)]

\* the files Deno.readFile can be asked for: path -> readable?, bytes
FS ==
    (<<"/tmp/key.pem">> :> [readable |-> TRUE, bytes |-> <<"KEY">>]) @@
    (<<"/tmp/cert.pem">> :> [readable |-> TRUE, bytes |-> <<"CERT">>]) @@
    (<<"/tmp/bom.pem">> :> [readable |-> TRUE, bytes |-> <<"<EF BB BF>", "KEY2", "<FF>">>]) @@
    (<<"/tmp/empty.pem">> :> [readable |-> TRUE, bytes |-> <<>>]) @@
    (<<"/root/denied.pem">> :> [readable |-> FALSE, bytes |-> <<"SECRET">>])

\* config.ts:101   new TextDecoder("UTF-8").decode(bytes): a leading byte order
\* mark is dropped, a byte that is no UTF-8 becomes U+FFFD
Utf8Decode(bytes) ==
    LET body == IF bytes # <<>> /\ bytes[1] = "<EF BB BF>" THEN Tail(bytes) ELSE bytes
    IN  [i \in 1..Len(body) |-> IF body[i] = "<FF>" THEN "<U+FFFD>" ELSE body[i]]

\* config.ts:100-102   readUtf8File is async: the call returns a pending promise
readUtf8File(filepath) == [threw |-> FALSE, v |-> PromiseOf(filepath)]

\* config.ts:101   how the promise of readUtf8File(path) settles
Settle(path) ==
    IF path \notin DOMAIN FS
    THEN [ok |-> FALSE, v |-> Err("NotFound", <<"No such file or directory">>)]
    ELSE IF ~FS[path].readable
    THEN [ok |-> FALSE, v |-> Err("PermissionDenied", <<"Permission denied">>)]
    ELSE [ok |-> TRUE, v |-> Str(Utf8Decode(FS[path].bytes))]

Parsers == {"undefined", "identity", "URL", "readUtf8File", "parseInt"}

\* config.ts:74   (parser == undefined) ? rawValue : parser(rawValue)
ApplyParser(parser, rawValue) ==
    CASE parser = "parseInt" -> parseInt(rawValue.s)
      [] parser = "URL" -> NewURL(rawValue.s)
      [] parser = "readUtf8File" -> readUtf8File(rawValue.s)
      [] OTHER -> [threw |-> FALSE, v |-> rawValue]

----------------------------------------------------------------------------
(* Validators *)

\* a < b on numbers: false as soon as one side is NaN
Less(a, b) == a.t = "number" /\ b.t = "number" /\ a.n < b.n

\* config.ts:26   inRange(min, max): the validator it returns
inRange(min, max) ==
    [kind |-> "inRange", min |-> min, max |-> max,
     rejects |-> {}, throwsError |-> TRUE, text |-> <<>>]

\* config.ts:10   any other ConfigValidator<T>: a synchronous function that
\* throws on the values of `rejects`, an Error(text) or the bare string text
Validator(rejects, throwsError, text) ==
    [kind |-> "custom", min |-> Undefined, max |-> Undefined,
     rejects |-> rejects, throwsError |-> throwsError, text |-> text]

\* config.ts:29   the message of the RangeError
RangeMessage(value, min, max) ==
    <<"Value ", NumText(value), " is not in range [", NumText(min), ", ",
      NumText(max), "]">>

\* config.ts:27-31   the validator inRange returns, applied to a value
InRangeCheck(min, max, value) ==
    IF Less(value, min) \/ Less(max, value)
    THEN [threw |-> TRUE, v |-> Err("RangeError", RangeMessage(value, min, max))]
    ELSE [threw |-> FALSE, v |-> Undefined]

\* config.ts:79   validator(parsedValue)
ApplyValidator(vd, value) ==
    IF vd.kind = "inRange"
    THEN InRangeCheck(vd.min, vd.max, value)
    ELSE IF value \in vd.rejects
    THEN [threw |-> TRUE,
          v |-> IF vd.throwsError THEN Err("Error", vd.text) ELSE Str(vd.text)]
    ELSE [threw |-> FALSE, v |-> Undefined]

----------------------------------------------------------------------------
(* getOption *)

MissingErrorEnvCase(name) ==
    Err("ReferenceError", <<"Required option ">> \o getEnvCase(name) \o <<" is unset">>)

\* config.ts:68
MissingError(name) ==
    Err("ReferenceError", <<"Required option ">> \o name \o <<" is unset">>)

RewrapDropDetail(name, err) ==
    IF err.t = "error"
    THEN [err EXCEPT !.s = <<"Option ">> \o name \o <<" is invaild">>]
    ELSE err

\* config.ts:81-84   the value re-thrown for what a validator threw
Rewrap(name, err) ==
    IF err.t = "error"
    THEN [err EXCEPT !.s = <<"Option ">> \o name \o <<" is invaild: ">> \o err.s]
    ELSE err

\* an entry of the invocation log
Call(fn, idx, arg, threw) == [fn |-> fn, idx |-> idx, arg |-> arg, threw |-> threw]

\* config.ts:77-86   the loop over the validators from the i-th on
RECURSIVE RunValidators(_, _, _, _)
RunValidators(name, list, value, i) ==
    IF i > Len(list)
    THEN [threw |-> FALSE, v |-> Undefined, calls |-> <<>>]
    ELSE LET r == ApplyValidator(list[i], value)
         IN  IF r.threw
             THEN [threw |-> TRUE, v |-> Rewrap(name, r.v),
                   calls |-> <<Call("validator", i, value, TRUE)>>]
             ELSE LET rest == RunValidators(name, list, value, i + 1)
                  IN  [rest EXCEPT
                         !.calls = <<Call("validator", i, value, FALSE)>> \o @]

\* no validators argument
NoValidators == [defined |-> FALSE, list |-> <<>>]
Validators(list) == [defined |-> TRUE, list |-> list]

\* config.ts:58-90   what a call returns or throws, with the rawValue it read
\* and the parser and validator invocations it made, in order
getOption(name, defaultValue, parser, validators) ==
    LET rawValue == Coalesce(Lookup(args, name), Lookup(env, getEnvCase(name)))
    IN  IF IsNullish(rawValue)
        THEN IF IsNullish(defaultValue)
             THEN [outcome |-> "throw", value |-> MissingError(name),
                   raw |-> rawValue, calls |-> <<>>]
             ELSE [outcome |-> "return", value |-> defaultValue,
                   raw |-> rawValue, calls |-> <<>>]
        ELSE LET p == ApplyParser(parser, rawValue)
                 pcalls == IF parser = "undefined" THEN <<>>
                           ELSE <<Call("parser", 0, rawValue, p.threw)>>
             IN  IF p.threw
                 THEN [outcome |-> "throw", value |-> p.v,
                       raw |-> rawValue, calls |-> pcalls]
                 ELSE LET r == IF validators.defined
                               THEN RunValidators(name, validators.list, p.v, 1)
                               ELSE [threw |-> FALSE, v |-> Undefined, calls |-> <<>>]
                      IN  [outcome |-> IF r.threw THEN "throw" ELSE "return",
                           value |-> IF r.threw THEN r.v ELSE p.v,
                           raw |-> rawValue, calls |-> pcalls \o r.calls]

NoCall == [outcome |-> "none", value |-> Undefined, raw |-> Undefined, calls |-> <<>>]

Decl(name, defaultValue, parser, validators) ==
    [name |-> name, defaultValue |-> defaultValue, parser |-> parser,
     validators |-> validators]

NoDecl == Decl(<<>>, Undefined, "undefined", NoValidators)

\* getOption applied to a declaration
Resolve(d) == getOption(d.name, d.defaultValue, d.parser, d.validators)

----------------------------------------------------------------------------
(* The five options config.ts declares *)

\* config.ts:141
ApiKeyDecl == Decl(knockout_api_key, Undefined, "identity", NoValidators)
\* config.ts:142
BaseUrlDecl == Decl(base_url, Undefined, "URL", NoValidators)
\* config.ts:144
HttpsKeyDecl == Decl(https_key_filepath, Undefined, "readUtf8File", NoValidators)
\* config.ts:145
HttpsCertDecl == Decl(https_cert_filepath, Undefined, "readUtf8File", NoValidators)

PortDeclDefault8080 ==
    Decl(port, Num(8080), "parseInt", Validators(<<inRange(Num(1), Num(65535))>>))

\* config.ts:147
PortDecl ==
    Decl(port, Num(3000), "parseInt", Validators(<<inRange(Num(1), Num(65535))>>))

----------------------------------------------------------------------------
(* Snapshots of the two sources *)

\* the mapping that holds pick[k] at every key k of keys where pick[k] is a string
MkMap(keys, pick) == [k \in {x \in keys : pick[x].t = "string"} |-> pick[k].s]

Absent == Undefined

CliApiKeys == {Absent, Str(<<"abc123">>), Str(<<>>)}
CliBaseUrls ==
    {Absent, Str(<<"https://", "example.com">>), Str(<<"not a url">>)}
CliKeyPaths ==
    {Absent, Str(<<"/tmp/key.pem">>), Str(<<"/tmp/bom.pem">>), Str(<<"/tmp/missing.pem">>)}
CliCertPaths == {Absent, Str(<<"/tmp/cert.pem">>), Str(<<"/root/denied.pem">>)}
CliPorts ==
    {Absent, Str(<<"7","0","0","0","0">>), Str(<<"a","b","c">>), Str(<<"1">>)}

EnvApiKeys == {Absent, Str(<<"envkey">>)}
EnvBaseUrls == {Absent, Str(<<"http://", "localhost", "/app/">>)}
EnvKeyPaths == {Absent, Str(<<"/tmp/empty.pem">>)}
EnvCertPaths == {Absent, Str(<<"/tmp/cert.pem">>)}
EnvPorts == {Absent, Str(<<"8","0","8","0">>), Str(<<>>)}

KNOCKOUT_API_KEY ==
    <<"K","N","O","C","K","O","U","T","_","A","P","I","_","K","E","Y">>
BASE_URL == <<"B","A","S","E","_","U","R","L">>
HTTPS_KEY_FILEPATH ==
    <<"H","T","T","P","S","_","K","E","Y","_","F","I","L","E","P","A","T","H">>
HTTPS_CERT_FILEPATH ==
    <<"H","T","T","P","S","_","C","E","R","T","_","F","I","L","E","P","A","T","H">>
PORT == <<"P","O","R","T">>

EnvNames ==
    {KNOCKOUT_API_KEY, BASE_URL, HTTPS_KEY_FILEPATH, HTTPS_CERT_FILEPATH, PORT}

\* the environment variable each option is documented to be read from
EnvNameOf(name) ==
    CASE name = knockout_api_key -> KNOCKOUT_API_KEY
      [] name = base_url -> BASE_URL
      [] name = https_key_filepath -> HTTPS_KEY_FILEPATH
      [] name = https_cert_filepath -> HTTPS_CERT_FILEPATH
      [] name = port -> PORT

\* config.ts:4   the command lines the model starts from
ArgSnapshots ==
    { MkMap(OptionNames,
            (knockout_api_key :> a) @@ (base_url :> b) @@ (https_key_filepath :> k)
            @@ (https_cert_filepath :> c) @@ (port :> p)) :
        a \in CliApiKeys, b \in CliBaseUrls, k \in CliKeyPaths,
        c \in CliCertPaths, p \in CliPorts }

\* config.ts:1,64   the environments the model starts from
EnvSnapshots ==
    { MkMap(EnvNames,
            (KNOCKOUT_API_KEY :> a) @@ (BASE_URL :> b) @@ (HTTPS_KEY_FILEPATH :> k)
            @@ (HTTPS_CERT_FILEPATH :> c) @@ (PORT :> p)) :
        a \in EnvApiKeys, b \in EnvBaseUrls, k \in EnvKeyPaths,
        c \in EnvCertPaths, p \in EnvPorts }

----------------------------------------------------------------------------
(* Evaluation of config.ts, then of the module that imports it *)

EmptyConfig ==
    [apiKey |-> Undefined, baseUrl |-> Undefined, httpsKey |-> Undefined,
     httpsCert |-> Undefined, port |-> Undefined]

Unseen ==
    [observed |-> FALSE, port |-> Undefined, key |-> Undefined, cert |-> Undefined,
     baseUrl |-> Undefined, apiKey |-> Undefined]

Init ==
    /\ args \in ArgSnapshots
    /\ env \in EnvSnapshots
    /\ pc = "apiKey"
    /\ config = EmptyConfig
    /\ resolved = {}
    /\ awaited = Undefined
    /\ error = Undefined
    /\ seen = Unseen
    /\ decl = NoDecl
    /\ last = NoCall

\* a property initialiser  field: getOption(...)  of config.ts:140-148
ResolveField(at, d, field, next) ==
    /\ pc = at
    /\ LET r == Resolve(d)
       IN  /\ decl' = d
           /\ last' = r
           /\ IF r.outcome = "throw"
              THEN /\ pc' = "aborted"
                   /\ error' = r.value
                   /\ UNCHANGED <<config, resolved>>
              ELSE /\ pc' = next
                   /\ config' = [config EXCEPT ![field] = r.value]
                   /\ resolved' = resolved \cup {d.name}
                   /\ UNCHANGED error
    /\ UNCHANGED <<args, env, awaited, seen>>

\* the operand of  await getOption(...)  of config.ts:144,145
CallField(at, d, next) ==
    /\ pc = at
    /\ LET r == Resolve(d)
       IN  /\ decl' = d
           /\ last' = r
           /\ IF r.outcome = "throw"
              THEN /\ pc' = "aborted"
                   /\ error' = r.value
                   /\ UNCHANGED awaited
              ELSE /\ pc' = next
                   /\ awaited' = r.value
                   /\ UNCHANGED error
    /\ UNCHANGED <<args, env, config, resolved, seen>>

\* the await of config.ts:144,145 resumes: with the file's text, or by throwing
AwaitField(at, d, field, next) ==
    /\ pc = at
    /\ awaited.t = "promise"
    /\ LET r == Settle(awaited.s)
       IN  /\ awaited' = r.v
           /\ IF r.ok
              THEN /\ pc' = next
                   /\ config' = [config EXCEPT ![field] = r.v]
                   /\ resolved' = resolved \cup {d.name}
                   /\ UNCHANGED error
              ELSE /\ pc' = "aborted"
                   /\ error' = r.v
                   /\ UNCHANGED <<config, resolved>>
    /\ UNCHANGED <<args, env, seen, decl, last>>

ResolveApiKey == ResolveField("apiKey", ApiKeyDecl, "apiKey", "baseUrl")
ResolveBaseUrl == ResolveField("baseUrl", BaseUrlDecl, "baseUrl", "httpsKey")
CallHttpsKey == CallField("httpsKey", HttpsKeyDecl, "awaitKey")
AwaitHttpsKey == AwaitField("awaitKey", HttpsKeyDecl, "httpsKey", "httpsCert")
CallHttpsCert == CallField("httpsCert", HttpsCertDecl, "awaitCert")
AwaitHttpsCert == AwaitField("awaitCert", HttpsCertDecl, "httpsCert", "port")
ResolvePort == ResolveField("port", PortDecl, "port", "evaluated")

ImportAnyTime == pc \notin {"listening", "aborted"}

\* main.ts:2   the body of the importing module runs once config.ts, top-level
\* awaits included, has been evaluated to its end without throwing
ImportReady == pc = "evaluated"

\* main.ts:5-25
Main ==
    /\ ImportReady
    /\ seen' = [observed |-> TRUE, port |-> config.port, key |-> config.httpsKey,
                cert |-> config.httpsCert, baseUrl |-> config.baseUrl,
                apiKey |-> Undefined]
    /\ pc' = "listening"
    /\ UNCHANGED <<args, env, config, resolved, awaited, error, decl, last>>

\* unnamed/part_000:8-73   the variant that also builds the token URL
AuthMain ==
    /\ ImportReady
    /\ seen' = [observed |-> TRUE, port |-> config.port, key |-> config.httpsKey,
                cert |-> config.httpsCert, baseUrl |-> config.baseUrl,
                apiKey |-> config.apiKey]
    /\ pc' = "listening"
    /\ UNCHANGED <<args, env, config, resolved, awaited, error, decl, last>>

Next ==
    \/ ResolveApiKey
    \/ ResolveBaseUrl
    \/ CallHttpsKey
    \/ AwaitHttpsKey
    \/ CallHttpsCert
    \/ AwaitHttpsCert
    \/ ResolvePort
    \/ Main
    \/ AuthMain

Spec == Init /\ [][Next]_vars

----------------------------------------------------------------------------
(* One call of getOption on a declaration of any shape *)

MaxValidators == 2

\* the sequences of at most n elements of S
SeqsUpTo(S, n) == UNION {[1..k -> S] : k \in 0..n}

\* validators other than inRange: one that throws an Error, one that throws a string
NotEmpty == Validator({Str(<<>>)}, TRUE, <<"must not be empty">>)
Reserved ==
    Validator({Num(15), Str(<<"abc123">>), Str(<<"KEY">>)}, FALSE, <<"reserved value">>)

NumberValidators == {inRange(Num(1), Num(65535)), inRange(Num(10), Num(20)), Reserved}
TextValidators == {NotEmpty, Reserved}

ValidatorArgs(pool) ==
    {NoValidators} \cup {Validators(list) : list \in SeqsUpTo(pool, MaxValidators)}

\* a declaration with the raw strings to try it on: command line, environment
Case(d, cli, envs) == [d |-> d, cli |-> cli, envs |-> envs]

NumberCases ==
    { Case(Decl(n, dv, "parseInt", vs),
           {Absent, Str(<<>>), Str(<<"a","b","c">>), Str(<<"0">>), Str(<<"1">>),
            Str(<<"1","5">>), Str(<<"6","5","5","3","5">>),
            Str(<<"6","5","5","3","6">>), Str(<<"7","0","0","0","0">>),
            Str(<<" ","0","x","1","F">>)},
           {Absent, Str(<<"8","0","8","0">>), Str(<<>>), Str(<<"-","1">>)}) :
        n \in OptionNames, dv \in {Undefined, Num(3000), Num(0), Num(70000)},
        vs \in ValidatorArgs(NumberValidators) }

TextCases ==
    { Case(Decl(n, dv, p, vs),
           {Absent, Str(<<>>), Str(<<"abc123">>), Str(<<"other">>)},
           {Absent, Str(<<>>), Str(<<"envkey">>)}) :
        n \in OptionNames, dv \in {Undefined, Str(<<>>), Str(<<"fallback">>)},
        p \in {"undefined", "identity"}, vs \in ValidatorArgs(TextValidators) }

UrlCases ==
    { Case(Decl(n, Undefined, "URL", vs),
           {Absent, Str(<<>>), Str(<<"https://", "example.com">>),
            Str(<<"not a url">>)},
           {Absent, Str(<<"http://", "localhost", "/app/">>)}) :
        n \in OptionNames, vs \in {NoValidators, Validators(<<>>)} }

FileCases ==
    { Case(Decl(n, Undefined, "readUtf8File", vs),
           {Absent, Str(<<>>), Str(<<"/tmp/key.pem">>), Str(<<"/tmp/empty.pem">>),
            Str(<<"/tmp/bom.pem">>), Str(<<"/tmp/missing.pem">>),
            Str(<<"/root/denied.pem">>)},
           {Absent, Str(<<"/tmp/cert.pem">>), Str(<<"/tmp/empty.pem">>)}) :
        n \in OptionNames, vs \in ValidatorArgs(TextValidators) }

Cases == NumberCases \cup TextCases \cup UrlCases \cup FileCases

\* a source that holds raw (when present) under key and, when stray is a
\* string, that string under the other spelling of the name
Source(key, raw, other, stray) ==
    MkMap({key, other}, (key :> raw) @@ (other :> stray))

InitOpt ==
    /\ \E c \in Cases, stray \in {Absent, Str(<<"stray">>)} :
         /\ decl = c.d
         /\ \E raw \in c.cli :
              args = Source(c.d.name, raw, EnvNameOf(c.d.name), stray)
         /\ \E raw \in c.envs :
              env = Source(EnvNameOf(c.d.name), raw, c.d.name, stray)
    /\ pc = "opt_start"
    /\ config = EmptyConfig
    /\ resolved = {}
    /\ awaited = Undefined
    /\ error = Undefined
    /\ seen = Unseen
    /\ last = NoCall

\* the call itself
OptCall ==
    /\ pc = "opt_start"
    /\ LET r == Resolve(decl)
       IN  /\ last' = r
           /\ pc' = IF r.outcome = "throw" THEN "opt_thrown"
                    ELSE IF r.value.t = "promise" THEN "opt_pending"
                    ELSE "opt_returned"
           /\ error' = IF r.outcome = "throw" THEN r.value ELSE Undefined
           /\ awaited' = IF r.outcome = "return" /\ r.value.t = "promise"
                         THEN r.value ELSE Undefined
    /\ UNCHANGED <<args, env, config, resolved, seen, decl>>

\* the caller awaits the pending result the call returned
OptAwait ==
    /\ pc = "opt_pending"
    /\ LET r == Settle(awaited.s)
       IN  /\ awaited' = r.v
           /\ pc' = IF r.ok THEN "opt_fulfilled" ELSE "opt_rejected"
           /\ error' = IF r.ok THEN Undefined ELSE r.v
    /\ UNCHANGED <<args, env, config, resolved, seen, decl, last>>

NextOpt == OptCall \/ OptAwait

SpecOpt == InitOpt /\ [][NextOpt]_vars

----------------------------------------------------------------------------
(* Properties of one getOption call (SpecOpt) *)

Called == last.outcome # "none"
CliPresent == decl.name \in DOMAIN args
EnvPresent == EnvNameOf(decl.name) \in DOMAIN env
ParserCalls == SelectSeq(last.calls, LAMBDA c : c.fn = "parser")
ValidatorCalls == SelectSeq(last.calls, LAMBDA c : c.fn = "validator")
Seventy == <<"7","0","0","0","0">>
Eighty80 == <<"8","0","8","0">>
PortRange == Validators(<<inRange(Num(1), Num(65535))>>)

\* C1: the raw value is the command-line entry under the exact name whenever
\* there is one, and the environment entry under the uppercased name only when
\* there is none; the parser is handed that raw value; a command-line port
\* 70000 fails the range check whatever the environment holds.
C1_CliBeforeEnv ==
    Called =>
      /\ CliPresent => last.raw = Str(args[decl.name])
      /\ ~CliPresent /\ EnvPresent => last.raw = Str(env[EnvNameOf(decl.name)])
      /\ ~CliPresent /\ ~EnvPresent => last.raw = Undefined
      /\ \A i \in 1..Len(ParserCalls) : ParserCalls[i].arg = last.raw
      /\ (CliPresent \/ EnvPresent) /\ decl.parser # "undefined"
            => Len(ParserCalls) = 1
      /\ (CliPresent /\ args[decl.name] = Seventy /\ decl.parser = "parseInt"
            /\ decl.validators = PortRange)
            => last.outcome = "throw" /\ last.value.c = "RangeError"

C1_Witness ==
    /\ Called /\ decl = PortDecl
    /\ CliPresent /\ args[port] = Seventy
    /\ EnvPresent /\ env[PORT] = Eighty80
    /\ last.outcome = "throw"

\* C2: a required option absent from both sources makes the call throw the
\* ReferenceError "Required option <name> is unset", before the parser or any
\* validator is invoked.
C2_MissingRequired ==
    (Called /\ decl.defaultValue = Undefined /\ ~CliPresent /\ ~EnvPresent) =>
      /\ last.outcome = "throw"
      /\ last.value.t = "error" /\ last.value.c = "ReferenceError"
      /\ last.value.s = <<"Required option ">> \o decl.name \o <<" is unset">>
      /\ last.calls = <<>>

C2_Witness ==
    /\ pc = "opt_thrown" /\ decl.defaultValue = Undefined
    /\ ~CliPresent /\ ~EnvPresent
    /\ decl.parser = "readUtf8File" /\ decl.validators.list # <<>>

\* C3: an optional option absent from both sources yields its default itself,
\* with no parser and no validator invoked, also when a validator of the
\* option would reject the default.
C3_DefaultUnchanged ==
    (Called /\ decl.defaultValue # Undefined /\ ~CliPresent /\ ~EnvPresent) =>
      /\ last.outcome = "return"
      /\ last.value = decl.defaultValue
      /\ last.calls = <<>>

C3_Witness ==
    /\ pc = "opt_returned" /\ ~CliPresent /\ ~EnvPresent
    /\ decl.defaultValue = Num(0)
    /\ decl.validators = PortRange
    /\ last.value = Num(0)

\* the raw string raw was taken, parsed and validated: nothing else was
RawStringUsed(raw) ==
    /\ last.raw = Str(raw)
    /\ ~(last.outcome = "throw" /\ last.value.c = "ReferenceError")
    /\ decl.parser # "undefined" =>
         /\ Len(ParserCalls) = 1
         /\ ParserCalls[1].arg = Str(raw)
    /\ (decl.parser \in {"undefined", "identity"} /\ decl.validators.list # <<>>) =>
         /\ Len(ValidatorCalls) >= 1
         /\ \A i \in 1..Len(ValidatorCalls) : ValidatorCalls[i].arg = Str(raw)
    /\ (decl.parser \in {"undefined", "identity"} /\ last.outcome = "return") =>
         last.value = Str(raw)

\* C4: an empty string on the command line is a present value: it is what is
\* parsed and validated, whatever the environment and the default are, and the
\* call never reports the option as unset; likewise an empty string in the
\* environment when the command line has no entry.
C4_EmptyStringPresent ==
    Called =>
      /\ (CliPresent /\ args[decl.name] = <<>>) => RawStringUsed(<<>>)
      /\ (~CliPresent /\ EnvPresent /\ env[EnvNameOf(decl.name)] = <<>>)
            => RawStringUsed(<<>>)

C4_Witness ==
    /\ Called /\ CliPresent /\ args[decl.name] = <<>>
    /\ EnvPresent /\ env[EnvNameOf(decl.name)] # <<>>
    /\ decl.defaultValue # Undefined
    /\ decl.validators.list # <<>>
    /\ last.outcome = "throw"

\* the validator invocations are those of the declared validators, in order,
\* on one value, and stop at the first that throws, which makes the call throw
FailFast ==
    /\ \A i \in 1..Len(ValidatorCalls) :
         /\ ValidatorCalls[i].idx = i
         /\ i <= Len(decl.validators.list)
         /\ ValidatorCalls[i].arg = ValidatorCalls[1].arg
         /\ ValidatorCalls[i].threw
              = ApplyValidator(decl.validators.list[i], ValidatorCalls[i].arg).threw
         /\ ValidatorCalls[i].threw =>
              i = Len(ValidatorCalls) /\ last.outcome = "throw"
    /\ (last.outcome = "return" /\ Len(ParserCalls) + Len(ValidatorCalls) > 0
          /\ decl.validators.defined)
         => Len(ValidatorCalls) = Len(decl.validators.list)

\* what the validator that threw had thrown
Thrown ==
    LET k == Len(ValidatorCalls)
    IN  ApplyValidator(decl.validators.list[k], ValidatorCalls[k].arg).v

ValidatorThrew ==
    Called /\ Len(ValidatorCalls) > 0 /\ ValidatorCalls[Len(ValidatorCalls)].threw

\* C5 as stated: whatever a validator throws, the call throws a message
\* holding the option's name, the marker and the validator's text, and no
\* later validator is invoked.
C5_AlwaysRewritten ==
    ValidatorThrew =>
      /\ FailFast
      /\ Contains(last.value.s, decl.name)
      /\ Contains(last.value.s, <<" is invaild: ">>)
      /\ Contains(last.value.s, Thrown.s)

\* C5 amended: the first validator that throws ends the call, no later one is
\* invoked; when it threw an Error, the same Error is re-thrown with the
\* message "Option <name> is invaild: <its message>"; when it threw a value
\* that is no Error, that value is re-thrown as it is.
C5_ErrorsRewritten ==
    ValidatorThrew =>
      /\ FailFast
      /\ Thrown.t = "error" =>
           /\ last.value.t = "error" /\ last.value.c = Thrown.c
           /\ last.value.s
                = <<"Option ">> \o decl.name \o <<" is invaild: ">> \o Thrown.s
      /\ Thrown.t # "error" => last.value = Thrown

C5_Witness ==
    /\ ValidatorThrew
    /\ Len(decl.validators.list) = 2 /\ Len(ValidatorCalls) = 1
    /\ ApplyValidator(decl.validators.list[2], ValidatorCalls[1].arg).threw
    /\ decl.validators.list[2] # decl.validators.list[1]
    /\ Thrown.t = "error"

\* a <= b on numbers
Leq(a, b) == a.t = "number" /\ b.t = "number" /\ a.n <= b.n

\* C9: a validator made by inRange(min, max) accepts v exactly when
\* min <= v <= max.
C9_InRangeExact ==
    \A i \in 1..Len(ValidatorCalls) :
      LET vd == decl.validators.list[ValidatorCalls[i].idx]
          v == ValidatorCalls[i].arg
      IN  vd.kind = "inRange" =>
            (~ValidatorCalls[i].threw <=> (Leq(vd.min, v) /\ Leq(v, vd.max)))

\* C10: the validators of an option whose parser returns a pending result are
\* applied to the completed text, not to the pending result, so a text a
\* validator rejects never comes out of the resolution.
C10_ValidatorsSeeText ==
    decl.parser = "readUtf8File" =>
      /\ \A i \in 1..Len(ValidatorCalls) : ValidatorCalls[i].arg.t # "promise"
      /\ pc = "opt_fulfilled" =>
           \A i \in 1..Len(decl.validators.list) :
             ~ApplyValidator(decl.validators.list[i], awaited).threw

----------------------------------------------------------------------------
(* Properties of the construction of the record (Spec) *)

Constructed == pc \in {"evaluated", "listening"}

DecimalDigits == {"0", "1", "2", "3", "4", "5", "6", "7", "8", "9"}

\* the string is a decimal numeral
IsNumeral(s) == s # <<>> /\ \A i \in 1..Len(s) : s[i] \in DecimalDigits

\* C6: the port of a constructed record is an integer of [1, 65535], and a raw
\* port string that is no numeral makes the resolution of port fail.
C6_PortIsAPort ==
    /\ Constructed =>
         config.port.t = "number" /\ 1 <= config.port.n /\ config.port.n <= 65535
    /\ (decl.name = port /\ last.raw.t = "string" /\ ~IsNumeral(last.raw.s))
         => last.outcome = "throw"

\* the text of the readable files
TextOf(path) ==
    CASE path = <<"/tmp/key.pem">> -> <<"KEY">>
      [] path = <<"/tmp/cert.pem">> -> <<"CERT">>
      [] path = <<"/tmp/bom.pem">> -> <<"KEY2", "<U+FFFD>">>
      [] path = <<"/tmp/empty.pem">> -> <<>>

Readable(path) == path \in DOMAIN FS /\ FS[path].readable

\* the command line supplies exactly the options of given, both paths readable,
\* and the environment supplies nothing
Supplied(given) ==
    /\ DOMAIN args = given
    /\ env = <<>>
    /\ https_key_filepath \in given => Readable(args[https_key_filepath])
    /\ https_cert_filepath \in given => Readable(args[https_cert_filepath])

\* the record holds the supplied key, the default port and the files' texts
RecordAsSupplied ==
    /\ config.apiKey = Str(args[knockout_api_key])
    /\ config.port = Num(3000)
    /\ config.httpsKey = Str(TextOf(args[https_key_filepath]))
    /\ config.httpsCert = Str(TextOf(args[https_cert_filepath]))

ThreeOptions == {knockout_api_key, https_key_filepath, https_cert_filepath}

\* C7 as stated: with the API key and the two readable file paths on the
\* command line and nothing else anywhere, the construction succeeds and
\* yields the key, port 3000 and the files' texts.
C7_ThreeOptionsSuffice ==
    Supplied(ThreeOptions) =>
      /\ pc # "aborted"
      /\ Constructed => RecordAsSupplied

\* C7 amended: the same once the command line also supplies a well-formed
\* base_url; baseUrl is then that URL.
C7_WithBaseUrl ==
    (Supplied(ThreeOptions \cup {base_url})
       /\ args[base_url] = <<"https://", "example.com">>) =>
      /\ pc # "aborted"
      /\ Constructed =>
           /\ RecordAsSupplied
           /\ config.baseUrl = UrlOf(<<"https://", "example.com", "/">>)

C7_Witness ==
    /\ Supplied(ThreeOptions \cup {base_url})
    /\ args[base_url] = <<"https://", "example.com">>
    /\ args[https_key_filepath] = <<"/tmp/bom.pem">>
    /\ pc = "evaluated"

\* C8: the importing module reads the record only once all five options have
\* been resolved, no file read is pending and nothing has been thrown, and
\* what it reads is the complete record; once a resolution has failed it never
\* reads anything.
C8_NoPartialRecord ==
    /\ seen.observed =>
         /\ pc = "listening"
         /\ resolved = OptionNames
         /\ awaited.t # "promise"
         /\ error = Undefined
         /\ seen.port = config.port /\ seen.port # Undefined
         /\ seen.key = config.httpsKey /\ seen.key.t = "string"
         /\ seen.cert = config.httpsCert /\ seen.cert.t = "string"
         /\ seen.baseUrl = config.baseUrl /\ seen.baseUrl.t = "url"
         /\ seen.apiKey \in {config.apiKey, Undefined} /\ config.apiKey.t = "string"
    /\ (pc = "aborted" \/ error # Undefined) =>
         /\ ~seen.observed
         /\ pc = "aborted"
         /\ resolved # OptionNames

C8_Witness ==
    /\ pc = "listening" /\ seen.observed
    /\ seen.apiKey = config.apiKey
    /\ DOMAIN args = {} /\ DOMAIN env = EnvNames

====
